---------------------------- MODULE Spec2Model ----------------------------
(***************************************************************************)
(* Flame Prophet frontend: the analysis pipeline of the main page          *)
(* (handleClassify, predictWeather), the shared LocationContext store and  *)
(* the API client (lib/api.ts).                                            *)
(*                                                                         *)
(* Numbers.  Every JavaScript number of the pipeline is held in tenths     *)
(* (fixed point, one decimal): 101.3 is 1013, 25.0 is 250, 0.82 is held in *)
(* hundredths only where stated.  A JavaScript value is a record           *)
(* [k, n]: k is "number", "undefined" or "NaN".                            *)
(***************************************************************************)
EXTENDS Integers, Sequences, FiniteSets, TLC

VARIABLES
    \* ---- LocationContext (contexts/LocationContext.tsx) ----
    selectedLocation,       \* MapLocation | null
    classificationResult,   \* ClassificationResponse | null
    \* ---- MainPage component state (main page) ----
    mapElement,             \* HTMLElement | null      (TRUE: mounted)
    mapZoomFunction,        \* (() => Promise) | null  (TRUE: set)
    isClassifying,          \* busy flag
    run,                    \* the invocations of handleClassify, by index
    swal,                   \* the modal Swal.fire last opened: title and text
    \* ---- the normalisation step of both call sites, on one response ----
    historicalData,         \* the historical-weather response under study
    normOut,                \* site -> outcome of the step (or not yet run)
    \* ---- one call of a gateway operation (lib/api.ts) ----
    gw,
    \* ---- WeatherComponent over the LocationContext weather slots ----
    panel,
    \* ---- Header: the quick classification of handleClassifyArea ----
    header,
    \* ---- MainPage: predictWeather and the weather-prediction state ----
    prediction

orchVars == <<selectedLocation, classificationResult, mapElement,
              mapZoomFunction, isClassifying, run, swal>>
normVars == <<historicalData, normOut>>
gwVars   == <<gw>>
sideVars == <<panel, header, prediction>>
vars     == <<selectedLocation, classificationResult, mapElement,
              mapZoomFunction, isClassifying, run, swal, historicalData, normOut,
              gw, panel, header, prediction>>

(***************************************************************************)
(* JavaScript values and the operators the normaliser uses on them.        *)
(***************************************************************************)
Undefined == [k |-> "undefined", n |-> 0]
NaN       == [k |-> "NaN", n |-> 0]
Num(v)    == [k |-> "number", n |-> v]

\* whole.tenth as a fixed-point number of tenths
Tenths(whole, tenth) == whole * 10 + tenth

IsNumber(x) == x.k = "number"

\* ToBoolean: undefined, NaN and 0 are falsy
Truthy(x) == x.k = "number" /\ x.n # 0

\* a || b
Or(a, b) == IF Truthy(a) THEN a ELSE b

\* a - d and a * m on a possibly undefined operand (NaN when it is no number)
Minus(a, d) == IF IsNumber(a) THEN Num(a.n - d) ELSE NaN
Plus(a, d)  == IF IsNumber(a) THEN Num(a.n + d) ELSE NaN
Times(a, m) == IF IsNumber(a) THEN Num(a.n * m) ELSE NaN

\* a < c for a possibly undefined a (undefined < c is false)
LessThan(a, c) == IsNumber(a) /\ a.n < c


(***************************************************************************)
(* HistoricalWeatherEntry (lib/api.ts): the legacy nested shape and the    *)
(* flat NASA POWER shape in one record.  An absent key is Undefined; an    *)
(* absent nested object has present = FALSE.                               *)
(***************************************************************************)
FlatKeys == {"T2M", "T2M_MIN", "T2M_MAX", "RH2M", "WS10M", "WD10M", "PS",
             "PRECTOTCORR", "ALLSKY_SFC_SW_DWN", "ALLSKY_SFC_UVA"}

\* item.temperature?.temp, item.temperature?.humidity, item.wind?.speed, ...
OptTemp(item)      == IF item.temperature.present THEN item.temperature.temp ELSE Undefined
OptHumidity(item)  == IF item.temperature.present THEN item.temperature.humidity ELSE Undefined
OptSpeed(item)     == IF item.wind.present THEN item.wind.speed ELSE Undefined
OptDirection(item) == IF item.wind.present THEN item.wind.direction ELSE Undefined

\* the literals of the two conversions
DEFAULT_T2M     == Tenths(25, 0)
DEFAULT_T2M_MIN == Tenths(22, 0)
DEFAULT_T2M_MAX == Tenths(30, 0)
DEFAULT_RH2M    == Tenths(75, 0)
DEFAULT_WS10M   == Tenths(2, 0)
DEFAULT_WD10M   == Tenths(180, 0)
DEFAULT_PS      == Tenths(1013, 0)
DEFAULT_PRECTOTCORR == Tenths(0, 0)
DEFAULT_SW_DWN  == Tenths(200, 0)
DEFAULT_UVA     == Tenths(30, 0)
TEMP_SPREAD     == Tenths(3, 0)
KPA_LIMIT       == Tenths(200, 0)
DAYS            == 14

\* T2M: item.temperature?.temp || item.T2M || 25.0
ConvT2M(item) == Or(Or(OptTemp(item), item.T2M), Num(DEFAULT_T2M))

\* T2M_MIN: item.temperature?.temp ? item.temperature.temp - 3 : item.T2M_MIN || 22.0
ConvT2M_MIN(item) ==
    IF Truthy(OptTemp(item))
    THEN Minus(item.temperature.temp, TEMP_SPREAD)
    ELSE Or(item.T2M_MIN, Num(DEFAULT_T2M_MIN))

\* T2M_MAX: item.temperature?.temp ? item.temperature.temp + 3 : item.T2M_MAX || 30.0
ConvT2M_MAX(item) ==
    IF Truthy(OptTemp(item))
    THEN Plus(item.temperature.temp, TEMP_SPREAD)
    ELSE Or(item.T2M_MAX, Num(DEFAULT_T2M_MAX))

\* ConvRH2M without its default
ConvRH2MNoDefault(item) == Or(OptHumidity(item), item.RH2M)

\* RH2M: item.temperature?.humidity || item.RH2M || 75.0
ConvRH2M(item) == Or(Or(OptHumidity(item), item.RH2M), Num(DEFAULT_RH2M))

\* WS10M: item.wind?.speed || item.WS10M || 2.0
ConvWS10M(item) == Or(Or(OptSpeed(item), item.WS10M), Num(DEFAULT_WS10M))

\* ConvWD10M without its default
ConvWD10MNoDefault(item) == Or(OptDirection(item), item.WD10M)

\* WD10M: item.wind?.direction || item.WD10M || 180.0
ConvWD10M(item) == Or(Or(OptDirection(item), item.WD10M), Num(DEFAULT_WD10M))

\* handleClassify, PS: item.pressure ? item.pressure * 10 : item.PS || 1013.0
ClassifyPS(item) ==
    IF Truthy(item.pressure)
    THEN Times(item.pressure, 10)
    ELSE Or(item.PS, Num(DEFAULT_PS))

\* predictWeather, PS:
\*   item.pressure || (item.PS && item.PS < 200 ? item.PS * 10 : item.PS) || 1013.0
PredictPS(item) ==
    Or(Or(item.pressure,
          IF Truthy(item.PS) /\ LessThan(item.PS, KPA_LIMIT)
          THEN Times(item.PS, 10)
          ELSE item.PS),
       Num(DEFAULT_PS))

ConvPRECTOTCORR(item) == Or(item.PRECTOTCORR, Num(DEFAULT_PRECTOTCORR))
ConvSW_DWN(item)      == Or(item.ALLSKY_SFC_SW_DWN, Num(DEFAULT_SW_DWN))
ConvUVA(item)         == Or(item.ALLSKY_SFC_UVA, Num(DEFAULT_UVA))

\* the object literal both call sites build, ps being the site's PS rule
LstmEntry(item, ps) ==
    [date |-> item.date,
     T2M |-> ConvT2M(item),
     T2M_MIN |-> ConvT2M_MIN(item),
     T2M_MAX |-> ConvT2M_MAX(item),
     RH2M |-> ConvRH2M(item),
     WS10M |-> ConvWS10M(item),
     WD10M |-> ConvWD10M(item),
     PS |-> ps,
     PRECTOTCORR |-> ConvPRECTOTCORR(item),
     ALLSKY_SFC_SW_DWN |-> ConvSW_DWN(item),
     ALLSKY_SFC_UVA |-> ConvUVA(item)]

\* ClassifyLstmInput keeping the first 14 records only (.slice(0, 14))
ClassifyLstmInputTruncating(historical_data) ==
    [i \in 1..(IF Len(historical_data) > DAYS THEN DAYS ELSE Len(historical_data)) |->
        LstmEntry(historical_data[i], ClassifyPS(historical_data[i]))]

\* historicalData.historical_data.map(item => ({...})) at each call site
ClassifyLstmInput(historical_data) ==
    [i \in 1..Len(historical_data) |->
        LstmEntry(historical_data[i], ClassifyPS(historical_data[i]))]

PredictLstmInput(historical_data) ==
    [i \in 1..Len(historical_data) |->
        LstmEntry(historical_data[i], PredictPS(historical_data[i]))]

(***************************************************************************)
(* Errors: new Error(text), with the number a template puts in the text.   *)
(***************************************************************************)
Err(text, arg) == [text |-> text, arg |-> arg]
NoError == Err("", 0)

\* LengthCheck rejecting short sequences only
LengthCheckAtLeast(lstmInputData) ==
    IF Len(lstmInputData) < DAYS
    THEN Err("Expected 14 days of historical data, got", Len(lstmInputData))
    ELSE NoError

\* if (lstmInputData.length !== 14) throw new Error(`Expected 14 days ..., got ${n}`)
LengthCheck(lstmInputData) ==
    IF Len(lstmInputData) # DAYS
    THEN Err("Expected 14 days of historical data, got", Len(lstmInputData))
    ELSE NoError

\* The step from a historical-weather response to the forecast request, at one
\* site: historicalData.historical_data.map(...) (a TypeError when the response
\* carries no historical_data), the length check, then predictLSTMTemperature is
\* called (request sent) or the error is thrown.  current_temp is the hint
\* predictWeather adds to the request.
NoRequest == [sent |-> FALSE, data |-> <<>>, current_temp |-> Undefined]

NormalizeStep(hasData, lstmInputData, current_temp) ==
    LET thrown == IF ~hasData
                  THEN Err("Cannot read properties of undefined (reading 'map')", 0)
                  ELSE LengthCheck(lstmInputData)
    IN  [lstmInputData |-> IF hasData THEN lstmInputData ELSE <<>>,
         thrown |-> thrown,
         request |-> IF thrown = NoError
                     THEN [sent |-> TRUE, data |-> lstmInputData,
                           current_temp |-> current_temp]
                     ELSE NoRequest]

ClassifyNormalizeStep(response) ==
    NormalizeStep(response.hasData, ClassifyLstmInput(response.historical_data),
                  Undefined)

PredictNormalizeStep(response, current_temp) ==
    NormalizeStep(response.hasData, PredictLstmInput(response.historical_data),
                  current_temp)

(***************************************************************************)
(* The historical-weather responses the model draws from.  A response is   *)
(* n records; record k is the record under study, the others are a filler  *)
(* record; record i carries date i.  The records under study vary one      *)
(* group of keys at a time, over each filler.                              *)
(***************************************************************************)
BlankEntry ==
    [date |-> 0,
     temperature |-> [present |-> FALSE, temp |-> Undefined, humidity |-> Undefined],
     wind |-> [present |-> FALSE, speed |-> Undefined, direction |-> Undefined],
     pressure |-> Undefined,
     T2M |-> Undefined, T2M_MIN |-> Undefined, T2M_MAX |-> Undefined,
     RH2M |-> Undefined, WS10M |-> Undefined, WD10M |-> Undefined,
     PS |-> Undefined, PRECTOTCORR |-> Undefined,
     ALLSKY_SFC_SW_DWN |-> Undefined, ALLSKY_SFC_UVA |-> Undefined]

\* a complete record of the flat (NASA POWER) shape: PS in kPa
FlatEntry ==
    [BlankEntry EXCEPT
     !.T2M = Num(Tenths(27, 5)), !.T2M_MIN = Num(Tenths(23, 1)),
     !.T2M_MAX = Num(Tenths(31, 9)), !.RH2M = Num(Tenths(80, 0)),
     !.WS10M = Num(Tenths(3, 4)), !.WD10M = Num(Tenths(95, 0)),
     !.PS = Num(Tenths(100, 9)), !.PRECTOTCORR = Num(Tenths(4, 2)),
     !.ALLSKY_SFC_SW_DWN = Num(Tenths(5, 5)), !.ALLSKY_SFC_UVA = Num(Tenths(0, 4))]

\* a complete record of the legacy shape: pressure in hPa
LegacyEntry ==
    [BlankEntry EXCEPT
     !.temperature = [present |-> TRUE, temp |-> Num(Tenths(29, 0)),
                      humidity |-> Num(Tenths(66, 0))],
     !.wind = [present |-> TRUE, speed |-> Num(Tenths(5, 1)),
               direction |-> Num(Tenths(270, 0))],
     !.pressure = Num(Tenths(1009, 0))]

Fillers == {BlankEntry, FlatEntry, LegacyEntry}

OptVals(v) == {Undefined, Num(0), Num(v)}

TemperatureObjects ==
    {[present |-> FALSE, temp |-> Undefined, humidity |-> Undefined]} \cup
    {[present |-> TRUE, temp |-> t, humidity |-> h] :
        t \in OptVals(Tenths(30, 0)), h \in OptVals(Tenths(60, 0))}

WindObjects ==
    {[present |-> FALSE, speed |-> Undefined, direction |-> Undefined]} \cup
    {[present |-> TRUE, speed |-> s, direction |-> d] :
        s \in OptVals(Tenths(7, 5)), d \in OptVals(Tenths(45, 0))}

\* 101.3 (kPa-like), just below and at the 200 limit, 1013 (hPa)
PressureVals ==
    {Undefined, Num(0), Num(Tenths(101, 3)), Num(Tenths(199, 9)),
     Num(Tenths(200, 0)), Num(Tenths(1013, 0))}

TemperatureGroup(base) ==
    {[base EXCEPT !.temperature = o, !.T2M = a, !.T2M_MIN = b, !.T2M_MAX = c] :
        o \in TemperatureObjects, a \in OptVals(Tenths(28, 0)),
        b \in OptVals(Tenths(20, 0)), c \in OptVals(Tenths(35, 0))}

HumidityGroup(base) ==
    {[base EXCEPT !.temperature = o, !.RH2M = a] :
        o \in TemperatureObjects, a \in OptVals(Tenths(55, 0))}

WindGroup(base) ==
    {[base EXCEPT !.wind = o, !.WS10M = a, !.WD10M = b] :
        o \in WindObjects, a \in OptVals(Tenths(6, 0)), b \in OptVals(Tenths(90, 0))}

PressureGroup(base) ==
    {[base EXCEPT !.pressure = a, !.PS = b] : a \in PressureVals, b \in PressureVals}

RadiationGroup(base) ==
    {[base EXCEPT !.PRECTOTCORR = a, !.ALLSKY_SFC_SW_DWN = b, !.ALLSKY_SFC_UVA = c] :
        a \in OptVals(Tenths(12, 0)), b \in OptVals(Tenths(6, 5)),
        c \in OptVals(Tenths(0, 5))}

EntriesOver(f) ==
    TemperatureGroup(f) \cup HumidityGroup(f) \cup WindGroup(f)
    \cup PressureGroup(f) \cup RadiationGroup(f)

\* lengths of the responses: none, the spec's 9, one short, 14, and MaxExtra more
MaxExtra == 1
Lengths == {0, 9, DAYS - 1} \cup (DAYS .. DAYS + MaxExtra)

HistoricalResponse(n, k, entry, filler) ==
    [hasData |-> TRUE,
     historical_data |->
        [i \in 1..n |-> [(IF i = k THEN entry ELSE filler) EXCEPT !.date = i]]]

MalformedResponse == [hasData |-> FALSE, historical_data |-> <<>>]

Responses ==
    {MalformedResponse} \cup
    UNION {{HistoricalResponse(n, k, e, f) :
                n \in Lengths, k \in {1, DAYS}, e \in EntriesOver(f)} : f \in Fillers}

(***************************************************************************)
(* lib/api.ts: how each operation turns the end of its request into a      *)
(* value or a thrown Error.  An event is what ended the request:           *)
(*   ok      - a 2xx response whose body parses                            *)
(*   badjson - a 2xx response whose body does not parse                    *)
(*   http    - a non-2xx response (status, body)                           *)
(*   abort   - controller.abort() from the operation's own setTimeout      *)
(*   network - fetch rejected (TypeError) / the XHR error event            *)
(***************************************************************************)
FetchOps == {"classify", "currentWeather", "historicalWeather", "lstmHealth", "predict"}
GatewayOps == FetchOps \cup {"checkHealth", "classifyXhr"}

\* the setTimeout of each operation, in milliseconds
TIMEOUT_HEALTH      == 5000
TIMEOUT_CLASSIFY    == 30000
TIMEOUT_WEATHER     == 10000
TIMEOUT_HISTORICAL  == 15000
TIMEOUT_LSTM_HEALTH == 5000
TIMEOUT_PREDICT     == 30000

Timeout(op) ==
    CASE op = "checkHealth"       -> TIMEOUT_HEALTH
      [] op = "classify"          -> TIMEOUT_CLASSIFY
      [] op = "classifyXhr"       -> TIMEOUT_CLASSIFY
      [] op = "currentWeather"    -> TIMEOUT_WEATHER
      [] op = "historicalWeather" -> TIMEOUT_HISTORICAL
      [] op = "lstmHealth"        -> TIMEOUT_LSTM_HEALTH
      [] op = "predict"           -> TIMEOUT_PREDICT

\* if (error.name === 'AbortError') throw new Error('Request timeout - ...')
TimeoutError(op) ==
    CASE op = "classify" ->
            Err("Request timeout - classification took too long (>30s)", 0)
      [] op = "classifyXhr" ->
            Err("Request timeout - classification took too long", 0)
      [] op = "currentWeather" ->
            Err("Request timeout - weather API took too long (>10s)", 0)
      [] op = "historicalWeather" ->
            Err("Request timeout - historical weather API took too long (>15s)", 0)
      [] op = "lstmHealth" ->
            Err("Request timeout - LSTM health check took too long (>5s)", 0)
      [] op = "predict" ->
            Err("Request timeout - LSTM prediction took too long (>30s)", 0)

\* ErrorDataText reading the error field before the message
ErrorDataTextErrorFirst(errorData, status) ==
    IF errorData.error # "" THEN Err(errorData.error, 0)
    ELSE IF errorData.message # "" THEN Err(errorData.message, 0)
    ELSE Err("HTTP error! status:", status)

\* a || b || c on the strings of the error body ("" is falsy)
\* errorData.message || errorData.error || `HTTP error! status: ${status}`
ErrorDataText(errorData, status) ==
    IF errorData.message # "" THEN Err(errorData.message, 0)
    ELSE IF errorData.error # "" THEN Err(errorData.error, 0)
    ELSE Err("HTTP error! status:", status)

\* response.json().catch(() => ({error: 'Unknown error', message: '...'}))
FetchErrorData(body) ==
    IF body.parsable THEN body
    ELSE [parsable |-> TRUE, error |-> "Unknown error",
          message |-> "An unexpected error occurred"]

\* FetchThrown without the AbortError branch: the abort is rethrown as it came
FetchThrownNoAbortBranch(op, ev) ==
    CASE ev.kind = "abort"   -> Err("The operation was aborted.", 0)
      [] ev.kind = "network" -> Err("Failed to fetch", 0)
      [] ev.kind = "badjson" -> Err("Unexpected token in JSON", 0)
      [] ev.kind = "http"    -> ErrorDataText(FetchErrorData(ev.body), ev.status)
      [] OTHER               -> NoError

\* the Error a fetch-based operation throws for an event (NoError: it returns)
FetchThrown(op, ev) ==
    CASE ev.kind = "abort"   -> TimeoutError(op)
      [] ev.kind = "network" -> Err("Failed to fetch", 0)
      [] ev.kind = "badjson" -> Err("Unexpected token in JSON", 0)
      [] ev.kind = "http"    -> ErrorDataText(FetchErrorData(ev.body), ev.status)
      [] OTHER               -> NoError

\* uploadWithProgressClassify: the load, error and timeout listeners
XhrThrown(ev) ==
    CASE ev.kind = "abort"   -> TimeoutError("classifyXhr")
      [] ev.kind = "network" -> Err("Network error occurred during upload", 0)
      [] ev.kind = "badjson" -> Err("Invalid response format from server", 0)
      [] ev.kind = "http"    ->
            IF ev.body.parsable THEN ErrorDataText(ev.body, ev.status)
            ELSE Err("HTTP error! status:", ev.status)
      [] OTHER               -> NoError

\* validateImageFile, as classifyWildfireArea uses it before any request
MAX_SIZE == 16 * 1024 * 1024
MIN_SIZE == 1024
AllowedTypes == {"image/jpeg", "image/jpg", "image/png"}

\* ValidateImageFile with both size limits exclusive
ValidateImageFileStrict(file) ==
    IF ~file.exists THEN Err("No file selected", 0)
    ELSE IF file.type \notin AllowedTypes
    THEN Err("Please select a valid image file (PNG, JPG, or JPEG)", 0)
    ELSE IF file.size >= MAX_SIZE THEN Err("File size must be less than 16MB", 0)
    ELSE IF file.size <= MIN_SIZE THEN Err("File is too small or corrupted", 0)
    ELSE NoError

ValidateImageFile(file) ==
    IF ~file.exists THEN Err("No file selected", 0)
    ELSE IF file.type \notin AllowedTypes
    THEN Err("Please select a valid image file (PNG, JPG, or JPEG)", 0)
    ELSE IF file.size > MAX_SIZE THEN Err("File size must be less than 16MB", 0)
    ELSE IF file.size < MIN_SIZE THEN Err("File is too small or corrupted", 0)
    ELSE NoError

\* the events the model draws from
NoBody == [parsable |-> FALSE, error |-> "", message |-> ""]
ErrorBodies ==
    {NoBody} \cup
    {[parsable |-> TRUE, error |-> e, message |-> m] :
        e \in {"", "prediction_failed"}, m \in {"", "Model is not loaded"}}
HttpStatuses == {404, 500}

OkEvent      == [kind |-> "ok", status |-> 200, body |-> NoBody]
BadJsonEvent == [kind |-> "badjson", status |-> 200, body |-> NoBody]
AbortEvent   == [kind |-> "abort", status |-> 0, body |-> NoBody]
NetworkEvent == [kind |-> "network", status |-> 0, body |-> NoBody]
HttpEvent(status, body) == [kind |-> "http", status |-> status, body |-> body]

ResponseEvents ==
    {OkEvent, BadJsonEvent} \cup
    {HttpEvent(st, b) : st \in HttpStatuses, b \in ErrorBodies}

(***************************************************************************)
(* The main page: handleClassify (CNN + weather + LSTM) over the           *)
(* LocationContext.  An invocation is a run; runs are numbered in the      *)
(* order they start.  Every await of the handler is a point where other    *)
(* handlers may run.                                                       *)
(***************************************************************************)
MaxRuns == 2
Runs == 1..MaxRuns

Locations == {"Jakarta", "Pekanbaru"}
NoLocation == "null"

\* ClassificationResponse & {predicted_temperature}; cnnOf and tempOf name the
\* run whose classify and predict responses the two parts came from
NoResult ==
    [present |-> FALSE, is_wildfire |-> FALSE, confidence |-> 0,
     predicted_temperature |-> Undefined, cnnOf |-> 0, tempOf |-> 0]

\* responses of POST /classify and POST /predict to run r (confidence in 1/100)
CnnResults(r) ==
    {[of |-> r, is_wildfire |-> TRUE, confidence |-> 82],
     [of |-> r, is_wildfire |-> FALSE, confidence |-> 35]}
NoCnn == [of |-> 0, is_wildfire |-> FALSE, confidence |-> 0]

LstmResults(r) ==
    {[of |-> r, success |-> TRUE, predicted_temperature |-> Num(Tenths(33, 4)),
      error |-> ""],
     [of |-> r, success |-> FALSE, predicted_temperature |-> Undefined,
      error |-> "Model is not loaded"],
     [of |-> r, success |-> FALSE, predicted_temperature |-> Undefined,
      error |-> ""]}

\* bodies of GET /weather/current: with and without the temperature object
CurrentWeathers ==
    {[hasTemperature |-> TRUE, current |-> Num(Tenths(31, 0))],
     [hasTemperature |-> FALSE, current |-> Undefined]}
NoWeather == [hasTemperature |-> FALSE, current |-> Undefined]

\* blobs the capture yields (bytes)
BlobSizes == {MIN_SIZE - 1, 2 * MIN_SIZE}

\* historical responses a run may receive
RunResponses ==
    {MalformedResponse} \cup
    {HistoricalResponse(n, 1, FlatEntry, FlatEntry) : n \in {9, DAYS, DAYS + MaxExtra}} \cup
    {HistoricalResponse(DAYS, 1, BlankEntry, LegacyEntry)}

\* how a request of a run may end other than well
FailureEvents == {AbortEvent, HttpEvent(500, NoBody)}

NoCalls == [capture |-> 0, weather |-> 0, classify |-> 0, history |-> 0, forecast |-> 0]
NoHistory == [received |-> FALSE, hasData |-> FALSE, len |-> 0]

IdleRun ==
    [pc |-> "idle", location |-> NoLocation,
     capture |-> "", blob |-> 0, weather |-> "", status |-> 0,
     currentWeather |-> NoWeather, cnnResult |-> NoCnn,
     history |-> NoHistory, calls |-> NoCalls, writes |-> 0, overtakenBy |-> 0]

Active == {"zoom", "settle", "parallel", "json", "classify", "history", "forecast"}
Ended  == {"done", "failed"}
InFlight(r) == run[r].pc \in Active

NoSwal == [title |-> "", text |-> NoError]

OrchInit ==
    /\ selectedLocation = NoLocation
    /\ classificationResult = NoResult
    /\ mapElement = FALSE
    /\ mapZoomFunction = FALSE
    /\ isClassifying = FALSE
    /\ run = [r \in Runs |-> IdleRun]
    /\ swal = NoSwal

\* handleMapReady(element, zoomToCurrent?)
HandleMapReady(hasZoom) ==
    /\ ~(mapElement /\ mapZoomFunction)
    /\ mapElement' = TRUE
    /\ mapZoomFunction' = (mapZoomFunction \/ hasZoom)
    /\ UNCHANGED <<selectedLocation, classificationResult, isClassifying, run, swal>>
    /\ UNCHANGED <<normVars, gwVars, sideVars>>

\* Header.handleLocationSelect: setSelectedLocation({...})
HandleLocationSelect(location) ==
    /\ selectedLocation # location
    /\ selectedLocation' = location
    /\ UNCHANGED <<classificationResult, mapElement, mapZoomFunction,
                   isClassifying, run, swal>>
    /\ UNCHANGED <<normVars, gwVars, sideVars>>

\* handleReset, the "Clear Result" button of the result popup
HandleReset ==
    /\ classificationResult.present
    /\ classificationResult' = NoResult
    /\ UNCHANGED <<selectedLocation, mapElement, mapZoomFunction,
                   isClassifying, run, swal>>
    /\ UNCHANGED <<normVars, gwVars, sideVars>>

\* CatchBlock without the finally: the busy flag stays as it was
CatchBlockNoFinally(r, err) ==
    /\ swal' = [title |-> "Analysis Failed", text |-> err]
    /\ isClassifying' = isClassifying
    /\ classificationResult' = classificationResult

\* CatchBlock also clearing the stored result
CatchBlockClearing(r, err) ==
    /\ swal' = [title |-> "Analysis Failed", text |-> err]
    /\ isClassifying' = FALSE
    /\ classificationResult' = NoResult

\* catch (err) { Swal.fire("Analysis Failed", message, "error") }
\* finally { setIsClassifying(false) }
CatchBlock(r, err) ==
    /\ swal' = [title |-> "Analysis Failed", text |-> err]
    /\ isClassifying' = FALSE
    /\ classificationResult' = classificationResult

Failed(rec) ==
    [rec EXCEPT !.pc = "failed", !.location = NoLocation,
                !.capture = "", !.blob = 0, !.weather = "",
                !.status = 0, !.currentWeather = NoWeather, !.cnnResult = NoCnn]

\* an await of run r rejects, or the code after it throws
Throw(r, rec, err) ==
    /\ run' = [run EXCEPT ![r] = Failed(rec)]
    /\ CatchBlock(r, err)
    /\ UNCHANGED <<selectedLocation, mapElement, mapZoomFunction>>
    /\ UNCHANGED <<normVars, gwVars, sideVars>>

\* the code of run r goes on to its next await
Continue(r, rec) ==
    /\ run' = [run EXCEPT ![r] = rec]
    /\ UNCHANGED <<selectedLocation, classificationResult, mapElement,
                   mapZoomFunction, isClassifying, swal>>
    /\ UNCHANGED <<normVars, gwVars, sideVars>>

\* GuardAlert without its second guard
GuardAlertMapOnly ==
    IF ~(mapElement /\ mapZoomFunction) THEN "Map Not Ready" ELSE ""

\* the two guards that open handleClassify: the title of the modal each opens,
\* "" when the handler goes on
GuardAlert ==
    IF ~(mapElement /\ mapZoomFunction) THEN "Map Not Ready"
    ELSE IF selectedLocation = NoLocation THEN "No Location Selected"
    ELSE ""

GuardText(title) ==
    IF title = "Map Not Ready" THEN Err("Wait for the map to finish loading.", 0)
    ELSE Err("Please select a location on the map first.", 0)

\* handleClassify is invoked: run r starts, or a guard returns
HandleClassify(r) ==
    /\ run[r].pc = "idle"
    /\ \A q \in Runs : q < r => run[q].pc # "idle"
    /\ IF GuardAlert # ""
       THEN /\ swal' = [title |-> GuardAlert, text |-> GuardText(GuardAlert)]
            /\ run' = [run EXCEPT ![r].pc = "returned"]
            /\ UNCHANGED isClassifying
       ELSE /\ isClassifying' = TRUE
            /\ run' = [run EXCEPT ![r].pc = "zoom",
                                  ![r].location = selectedLocation]
            /\ UNCHANGED swal
    /\ UNCHANGED <<selectedLocation, classificationResult, mapElement, mapZoomFunction>>
    /\ UNCHANGED <<normVars, gwVars, sideVars>>

\* await mapZoomFunction(): zoomToCurrent resolves after its 600 ms
ZoomDone(r) ==
    /\ run[r].pc = "zoom"
    /\ Continue(r, [run[r] EXCEPT !.pc = "settle"])

\* SettleDone issuing the capture alone, the weather fetch left for later
SettleDoneCaptureFirst(r) ==
    /\ run[r].pc = "settle"
    /\ Continue(r, [run[r] EXCEPT !.pc = "parallel",
                                  !.capture = "pending", !.calls.capture = 1])

\* await new Promise(res => setTimeout(res, 300)); then Promise.all([capture, fetch])
SettleDone(r) ==
    /\ run[r].pc = "settle"
    /\ Continue(r, [run[r] EXCEPT !.pc = "parallel",
                                  !.capture = "pending", !.weather = "pending",
                                  !.calls.capture = 1, !.calls.weather = 1])

\* AfterAll without the test of weatherResponse.ok
AfterAllNoStatusCheck(r, rec) ==
    Continue(r, [rec EXCEPT !.pc = "json"])

\* Promise.all has resolved: if (!weatherResponse.ok) throw ...; await json()
AfterAll(r, rec) ==
    IF rec.status < 200 \/ rec.status > 299
    THEN Throw(r, rec, Err("Weather API failed:", rec.status))
    ELSE Continue(r, [rec EXCEPT !.pc = "json"])

\* localCaptureScreenshot() resolves with a blob
CaptureResolve(r, size) ==
    /\ run[r].pc = "parallel" /\ run[r].capture = "pending"
    /\ LET rec == [run[r] EXCEPT !.capture = "ok", !.blob = size]
       IN  IF rec.weather = "pending" THEN Continue(r, rec) ELSE AfterAll(r, rec)

\* captureMapScreenshot throws `Screenshot capture failed: ...`
CaptureReject(r) ==
    /\ run[r].pc = "parallel" /\ run[r].capture = "pending"
    /\ Throw(r, run[r], Err("Screenshot capture failed: Failed to generate screenshot blob", 0))

\* fetch(.../api/weather/current) resolves with a response of some status
WeatherResolve(r, status) ==
    /\ run[r].pc = "parallel" /\ run[r].weather = "pending"
    /\ LET rec == [run[r] EXCEPT !.weather = "resolved", !.status = status]
       IN  IF rec.capture = "pending" THEN Continue(r, rec) ELSE AfterAll(r, rec)

\* fetch(.../api/weather/current) rejects
WeatherReject(r) ==
    /\ run[r].pc = "parallel" /\ run[r].weather = "pending"
    /\ Throw(r, run[r], Err("Failed to fetch", 0))

\* await weatherResponse.json(); new File(...); classifyWildfireArea({image: file})
\* up to its fetch (validateImageFile throws before any request)
WeatherJson(r, parsed, weather) ==
    /\ run[r].pc = "json"
    /\ LET file == [exists |-> TRUE, type |-> "image/png", size |-> run[r].blob]
           invalid == ValidateImageFile(file)
       IN  IF ~parsed THEN Throw(r, run[r], Err("Unexpected token in JSON", 0))
           ELSE IF invalid # NoError THEN Throw(r, run[r], invalid)
           ELSE Continue(r, [run[r] EXCEPT !.pc = "classify",
                                           !.currentWeather = weather,
                                           !.calls.classify = 1])

\* ClassifyDone going on to the historical fetch whatever the classification did
ClassifyDoneUnchecked(r, ev, cnn) ==
    /\ run[r].pc = "classify"
    /\ Continue(r, [run[r] EXCEPT !.pc = "history", !.calls.history = 1,
                                  !.cnnResult = IF FetchThrown("classify", ev) = NoError
                                                THEN cnn ELSE NoCnn])

\* const cnnResult = await classifyWildfireArea(...); the reads of
\* currentWeather.temperature.current ...; getHistoricalWeather(lat, lon, 14)
ClassifyDone(r, ev, cnn) ==
    /\ run[r].pc = "classify"
    /\ LET thrown == FetchThrown("classify", ev)
       IN  IF thrown # NoError THEN Throw(r, run[r], thrown)
           ELSE IF ~run[r].currentWeather.hasTemperature
           THEN Throw(r, run[r],
                      Err("Cannot read properties of undefined (reading 'current')", 0))
           ELSE Continue(r, [run[r] EXCEPT !.pc = "history", !.cnnResult = cnn,
                                           !.calls.history = 1])

\* const historicalData = await getHistoricalWeather(...); the conversion, the
\* length check, predictLSTMTemperature({data: lstmInputData})
HistoryDone(r, ev, response) ==
    /\ run[r].pc = "history"
    /\ LET thrown == FetchThrown("historicalWeather", ev)
           step == ClassifyNormalizeStep(response)
           rec == [run[r] EXCEPT !.history =
                      [received |-> TRUE, hasData |-> response.hasData,
                       len |-> Len(response.historical_data)]]
       IN  IF thrown # NoError THEN Throw(r, run[r], thrown)
           ELSE IF ~step.request.sent THEN Throw(r, rec, step.thrown)
           ELSE Continue(r, [rec EXCEPT !.pc = "forecast", !.calls.forecast = 1])

\* LstmThrown without the success check
LstmThrownNever(lstmResult) == NoError

\* if (!lstmResult.success) throw new Error(lstmResult.error || "LSTM prediction failed")
LstmThrown(lstmResult) ==
    IF lstmResult.success THEN NoError
    ELSE IF lstmResult.error # "" THEN Err(lstmResult.error, 0)
    ELSE Err("LSTM prediction failed", 0)

\* CombinedResult keeping the temperature already in the store, if any
CombinedResultKeepingTemperature(cnnResult, lstmResult) ==
    [present |-> TRUE, is_wildfire |-> cnnResult.is_wildfire,
     confidence |-> cnnResult.confidence,
     predicted_temperature |->
        IF classificationResult.present
        THEN classificationResult.predicted_temperature
        ELSE lstmResult.predicted_temperature,
     cnnOf |-> cnnResult.of,
     tempOf |-> IF classificationResult.present
                THEN classificationResult.tempOf ELSE lstmResult.of]

\* const combinedResult = {...cnnResult, predicted_temperature: predictedTemp}
CombinedResult(cnnResult, lstmResult) ==
    [present |-> TRUE, is_wildfire |-> cnnResult.is_wildfire,
     confidence |-> cnnResult.confidence,
     predicted_temperature |-> lstmResult.predicted_temperature,
     cnnOf |-> cnnResult.of, tempOf |-> lstmResult.of]

\* Commit storing the classification alone, without the forecast
CommitClassificationOnly(r, lstmResult) ==
    /\ classificationResult' =
          [CombinedResult(run[r].cnnResult, lstmResult) EXCEPT
              !.predicted_temperature = Undefined, !.tempOf = 0]
    /\ isClassifying' = FALSE
    /\ run' = [run EXCEPT ![r] = [Failed(run[r]) EXCEPT !.pc = "done", !.writes = @ + 1]]
    /\ UNCHANGED <<selectedLocation, mapElement, mapZoomFunction, swal>>
    /\ UNCHANGED <<normVars, gwVars, sideVars>>

\* setClassificationResult(combinedResult); toast.success(...); finally
Commit(r, lstmResult) ==
    /\ classificationResult' = CombinedResult(run[r].cnnResult, lstmResult)
    /\ isClassifying' = FALSE
    /\ run' = [q \in Runs |->
                 IF q = r
                 THEN [run[r] EXCEPT !.pc = "done", !.writes = @ + 1,
                                     !.location = NoLocation, !.capture = "",
                                     !.blob = 0, !.weather = "", !.status = 0,
                                     !.currentWeather = NoWeather, !.cnnResult = NoCnn]
                 ELSE IF q < r /\ InFlight(q) /\ run[q].overtakenBy = 0
                 THEN [run[q] EXCEPT !.overtakenBy = r]
                 ELSE run[q]]
    /\ UNCHANGED <<selectedLocation, mapElement, mapZoomFunction, swal>>
    /\ UNCHANGED <<normVars, gwVars, sideVars>>

\* const lstmResult = await predictLSTMTemperature(...); to the end of the handler
ForecastDone(r, ev, lstmResult) ==
    /\ run[r].pc = "forecast"
    /\ LET thrown == FetchThrown("predict", ev)
       IN  IF thrown # NoError THEN Throw(r, run[r], thrown)
           ELSE IF LstmThrown(lstmResult) # NoError
           THEN Throw(r, run[r], LstmThrown(lstmResult))
           ELSE Commit(r, lstmResult)

RunEvents == {OkEvent} \cup FailureEvents

Next ==
    \/ \E hasZoom \in BOOLEAN : HandleMapReady(hasZoom)
    \/ \E location \in Locations : HandleLocationSelect(location)
    \/ HandleReset
    \/ \E r \in Runs : HandleClassify(r)
    \/ \E r \in Runs : ZoomDone(r)
    \/ \E r \in Runs : SettleDone(r)
    \/ \E r \in Runs, size \in BlobSizes : CaptureResolve(r, size)
    \/ \E r \in Runs : CaptureReject(r)
    \/ \E r \in Runs, status \in {200, 500} : WeatherResolve(r, status)
    \/ \E r \in Runs : WeatherReject(r)
    \/ \E r \in Runs, parsed \in BOOLEAN, weather \in CurrentWeathers :
          WeatherJson(r, parsed, weather)
    \/ \E r \in Runs, ev \in RunEvents : \E cnn \in CnnResults(r) :
          ClassifyDone(r, ev, cnn)
    \/ \E r \in Runs, ev \in RunEvents, response \in RunResponses :
          HistoryDone(r, ev, response)
    \/ \E r \in Runs, ev \in RunEvents : \E lstmResult \in LstmResults(r) :
          ForecastDone(r, ev, lstmResult)

(***************************************************************************)
(* The conversion step of both call sites applied to one response.         *)
(***************************************************************************)
\* times counts the executions of the step at the site
NotRun == [ran |-> FALSE, times |-> 0, out |-> NormalizeStep(FALSE, <<>>, Undefined)]

NormIdle ==
    /\ historicalData = MalformedResponse
    /\ normOut = [handleClassify |-> NotRun, predictWeather |-> NotRun]

NormInit ==
    /\ historicalData \in Responses
    /\ normOut = [handleClassify |-> NotRun, predictWeather |-> NotRun]

\* handleClassify, from the resolved getHistoricalWeather to predictLSTMTemperature
ClassifySite ==
    /\ ~normOut.handleClassify.ran
    /\ normOut' = [normOut EXCEPT !.handleClassify =
                      [ran |-> TRUE, times |-> 1,
                       out |-> ClassifyNormalizeStep(historicalData)]]
    /\ UNCHANGED <<historicalData, orchVars, gwVars, sideVars>>

\* predictWeather, likewise, with currentWeather.temperature.current as the hint
PredictSite(currentWeather) ==
    /\ currentWeather.hasTemperature
    /\ ~normOut.predictWeather.ran
    /\ normOut' = [normOut EXCEPT !.predictWeather =
                      [ran |-> TRUE, times |-> 1,
                       out |-> PredictNormalizeStep(historicalData,
                                                    currentWeather.current)]]
    /\ UNCHANGED <<historicalData, orchVars, gwVars, sideVars>>

NextNorm ==
    \/ ClassifySite
    \/ \E currentWeather \in CurrentWeathers : PredictSite(currentWeather)


(***************************************************************************)
(* The same step executed again on the same response, in an environment    *)
(* that may differ: the readings of the current weather, the values        *)
(* Math.random() returns and the day new Date() gives.  The page builds    *)
(* synthetic rows from these (historicalWeatherData in handleClassify,     *)
(* generateHistoricalWeatherData beside it).                               *)
(***************************************************************************)
MaxExecutions == 2

\* Math.random() in tenths (0.0 and 0.5), the same on each call of one execution
RandomDraws == {0, 5}

\* new Date(), as a day number
Clock == {20, 21}

\* currentWeather.temperature.current, .temperature.humidity and .wind.speed
Readings ==
    {[current |-> Tenths(31, 0), humidity |-> Tenths(60, 0), speed |-> Tenths(3, 0)],
     [current |-> Tenths(28, 5), humidity |-> Tenths(88, 0), speed |-> Tenths(0, 5)]}

Environments == [reading : Readings, rnd : RandomDraws, today : Clock]

Max(a, b) == IF a >= b THEN a ELSE b
Min(a, b) == IF a <= b THEN a ELSE b

\* handleClassify: const historicalWeatherData = Array.from({length: 30}, ...),
\* rows of ten numbers; basePressure is 100.9
HistoricalWeatherRows(reading, rnd) ==
    [i \in 1..30 |->
        <<reading.current + 3 * rnd - 15,
          reading.current - Tenths(3, 0) + 2 * rnd - 10,
          reading.current + Tenths(3, 0) + 2 * rnd - 10,
          Max(Tenths(30, 0), Min(Tenths(90, 0), reading.humidity + 15 * rnd - 75)),
          Max(Tenths(0, 5), reading.speed + 2 * rnd - 10),
          360 * rnd,
          Tenths(100, 9) + rnd - 5,
          Max(0, 15 * rnd),
          Tenths(4, 0) + 4 * rnd,
          (20 + 4 * rnd) \div 10>>]

\* generateHistoricalWeatherData(currentWeather, days): one record per day from
\* the oldest to today; basePressure is 1013.0
GenerateHistoricalWeatherData(reading, days, rnd, today) ==
    [j \in 1..days |->
        [date |-> today - (days - j),
         T2M |-> Num(reading.current + 3 * rnd - 15),
         T2M_MIN |-> Num(reading.current - Tenths(3, 0) + 2 * rnd - 10),
         T2M_MAX |-> Num(reading.current + Tenths(3, 0) + 2 * rnd - 10),
         RH2M |-> Num(Max(Tenths(30, 0),
                          Min(Tenths(90, 0), reading.humidity + 15 * rnd - 75))),
         WS10M |-> Num(Max(Tenths(0, 5), reading.speed + 2 * rnd - 10)),
         WD10M |-> Num(360 * rnd),
         PS |-> Num(Tenths(1013, 0) + 10 * rnd - 50),
         PRECTOTCORR |-> Num(Max(0, 15 * rnd)),
         ALLSKY_SFC_SW_DWN |-> Num(Tenths(4, 0) + 4 * rnd),
         ALLSKY_SFC_UVA |-> Num((20 + 4 * rnd) \div 10)]]

\* ClassifyExecution submitting generated records in place of the converted ones
ClassifyExecutionSynthetic(response, env) ==
    NormalizeStep(response.hasData,
                  GenerateHistoricalWeatherData(env.reading, DAYS, env.rnd, env.today),
                  Undefined)

\* handleClassify from the reads of currentWeather to predictLSTMTemperature:
\* historicalWeatherData is built and never read
ClassifyExecution(response, env) ==
    LET historicalWeatherData == HistoricalWeatherRows(env.reading, env.rnd)
    IN  ClassifyNormalizeStep(response)

\* predictWeather from the resolved getHistoricalWeather to
\* predictLSTMTemperature; the store's currentWeather gives the hint
PredictExecution(response, env) ==
    PredictNormalizeStep(response, Num(env.reading.current))

\* responses the step is executed again on: 9 and 14 records, the first under study
RepeatResponses ==
    {MalformedResponse} \cup
    UNION {{HistoricalResponse(n, 1, e, f) : n \in {9, DAYS}, e \in EntriesOver(f)} :
              f \in Fillers}

RepeatInit ==
    /\ historicalData \in RepeatResponses
    /\ normOut = [handleClassify |-> NotRun, predictWeather |-> NotRun]

ClassifyExecute(env) ==
    /\ normOut.handleClassify.times < MaxExecutions
    /\ normOut' = [normOut EXCEPT !.handleClassify =
                      [ran |-> TRUE, times |-> @.times + 1,
                       out |-> ClassifyExecution(historicalData, env)]]
    /\ UNCHANGED <<historicalData, orchVars, gwVars, sideVars>>

PredictExecute(env) ==
    /\ normOut.predictWeather.times < MaxExecutions
    /\ normOut' = [normOut EXCEPT !.predictWeather =
                      [ran |-> TRUE, times |-> @.times + 1,
                       out |-> PredictExecution(historicalData, env)]]
    /\ UNCHANGED <<historicalData, orchVars, gwVars, sideVars>>

NextRepeat ==
    \/ \E env \in Environments : ClassifyExecute(env)
    \/ \E env \in Environments : PredictExecute(env)

(***************************************************************************)
(* One call of one operation of lib/api.ts, with its timer.  Time moves in *)
(* steps of one second; the operation's setTimeout fires when the elapsed  *)
(* time reaches its delay, unless the request has ended before.            *)
(***************************************************************************)
SECOND  == 1000
RETRIES == 3

NoFile == [exists |-> FALSE, type |-> "", size |-> 0]
Files ==
    {NoFile} \cup
    {[exists |-> TRUE, type |-> t, size |-> n] :
        t \in {"image/png", "image/jpeg", "image/jpg", "image/gif"},
        n \in {MIN_SIZE - 1, MIN_SIZE, MAX_SIZE, MAX_SIZE + 1}}

GwStart ==
    [op |-> "", pc |-> "idle", attempt |-> 0, elapsed |-> 0, requests |-> 0,
     waited |-> 0, endedBy |-> "", thrown |-> NoError]

GwIdle == gw = GwStart
GwInit == gw = GwStart

\* checkHealth: console.warn; the last attempt throws, the others wait and retry
HealthThrown == Err("Unable to connect to the prediction service", 0)

\* the Error operation op surfaces when event ev ends its (last) request
Surfaced(op, ev) ==
    IF op = "checkHealth"
    THEN (IF ev.kind = "ok" THEN NoError ELSE HealthThrown)
    ELSE IF op = "classifyXhr" THEN XhrThrown(ev)
    ELSE FetchThrown(op, ev)

\* the operation is called and issues its request; classifyWildfireArea validates
\* its file first and throws without a request
GwCall(op, file) ==
    /\ gw.pc = "idle"
    /\ (op \notin {"classify", "classifyXhr"}) => file = NoFile
    /\ LET invalid == IF op \in {"classify", "classifyXhr"}
                      THEN ValidateImageFile(file) ELSE NoError
       IN  gw' = IF invalid # NoError
                 THEN [gw EXCEPT !.op = op, !.pc = "done", !.endedBy = "validation",
                                 !.thrown = invalid]
                 ELSE [gw EXCEPT !.op = op, !.pc = "pending", !.requests = 1]
    /\ UNCHANGED <<orchVars, normVars, sideVars>>

\* a second passes while the request is pending
GwTick ==
    /\ gw.pc = "pending"
    /\ gw.elapsed < Timeout(gw.op)
    /\ gw' = [gw EXCEPT !.elapsed = @ + SECOND]
    /\ UNCHANGED <<orchVars, normVars, sideVars>>

\* GwEnd without the retry loop: whatever ends the request ends the call
GwEndAtOnce(ev) ==
    gw' = [gw EXCEPT !.pc = "done", !.endedBy = ev.kind,
                     !.thrown = Surfaced(gw.op, ev)]

\* the request of the operation ends with event ev: the operation returns, throws,
\* or (checkHealth, not on its last attempt) goes to wait before the next attempt
GwEnd(ev) ==
    IF gw.op = "checkHealth" /\ ev.kind # "ok" /\ gw.attempt # RETRIES - 1
    THEN gw' = [gw EXCEPT !.pc = "backoff", !.elapsed = 0, !.endedBy = ev.kind]
    ELSE gw' = [gw EXCEPT !.pc = "done", !.endedBy = ev.kind,
                          !.thrown = Surfaced(gw.op, ev)]

\* the response arrives, or the transport fails, before the timer fires
GwRespond(ev) ==
    /\ gw.pc = "pending"
    /\ GwEnd(ev)
    /\ UNCHANGED <<orchVars, normVars, sideVars>>

\* setTimeout(() => controller.abort(), ...) fires; xhr.timeout for the XHR
GwAbort ==
    /\ gw.pc = "pending"
    /\ gw.elapsed = Timeout(gw.op)
    /\ GwEnd(AbortEvent)
    /\ UNCHANGED <<orchVars, normVars, sideVars>>

\* checkHealth: await new Promise(resolve => setTimeout(resolve, 1000 * (i + 1)))
GwBackoffTick ==
    /\ gw.pc = "backoff"
    /\ gw.elapsed < SECOND * (gw.attempt + 1)
    /\ gw' = [gw EXCEPT !.elapsed = @ + SECOND, !.waited = @ + SECOND]
    /\ UNCHANGED <<orchVars, normVars, sideVars>>

\* checkHealth: the next iteration of the for loop issues the next request
GwRetry ==
    /\ gw.pc = "backoff"
    /\ gw.elapsed = SECOND * (gw.attempt + 1)
    /\ gw' = [gw EXCEPT !.pc = "pending", !.attempt = @ + 1, !.elapsed = 0,
                        !.requests = @ + 1]
    /\ UNCHANGED <<orchVars, normVars, sideVars>>

NextGateway ==
    \/ \E op \in GatewayOps, file \in Files : GwCall(op, file)
    \/ GwTick
    \/ \E ev \in ResponseEvents \cup {NetworkEvent} : GwRespond(ev)
    \/ GwAbort
    \/ GwBackoffTick
    \/ GwRetry

(***************************************************************************)
(* WeatherComponent: fetchWeatherData, the auto-load effect and the Refresh *)
(* button, over currentWeather and isLoadingWeather of the LocationContext. *)
(* A React effect runs after the render in which one of its dependencies   *)
(* changed: effectDue says that such a render is pending.                  *)
(***************************************************************************)
MaxRequests == 3
MaxClicks == 2

DefaultCentre == "Indonesia"
NoToast == [kind |-> "", text |-> NoError]

\* inFlight holds the calls of fetchWeatherData whose await has not settled, by
\* the order in which they started; responseOf is the call whose response
\* currentWeather holds, and succeeded the calls that stored theirs
PanelStart ==
    [mounted |-> FALSE, currentWeather |-> "null", isLoadingWeather |-> FALSE,
     effectDue |-> FALSE, target |-> "", manual |-> FALSE,
     requests |-> 0, triggers |-> 0, toast |-> NoToast,
     inFlight |-> {}, responseOf |-> 0, succeeded |-> {}]

PanelIdle == panel = PanelStart

\* fetchWeatherData(lat?, lon?) up to its await: setIsLoadingWeather(true) and
\* the request of getCurrentWeather
FetchWeatherData(rec, target, manual) ==
    [rec EXCEPT !.isLoadingWeather = TRUE, !.effectDue = TRUE,
                !.target = target, !.manual = manual, !.requests = @ + 1,
                !.inFlight = @ \cup {[id |-> rec.requests + 1, target |-> target,
                                      manual |-> manual]}]

\* the component mounts: its first render, after which the effect runs
PanelMount ==
    /\ ~panel.mounted
    /\ panel' = [panel EXCEPT !.mounted = TRUE, !.effectDue = TRUE, !.triggers = 1]
    /\ UNCHANGED <<orchVars, normVars, gwVars, header, prediction>>

\* useEffect(() => { if (!currentWeather && !isLoadingWeather) fetchWeatherData() },
\*           [currentWeather, isLoadingWeather])
AutoLoadEffect ==
    /\ panel.mounted /\ panel.effectDue
    /\ panel' = IF panel.currentWeather = "null" /\ ~panel.isLoadingWeather
                    /\ panel.requests < MaxRequests
                 THEN FetchWeatherData(panel, DefaultCentre, FALSE)
                 ELSE [panel EXCEPT !.effectDue = FALSE]
    /\ UNCHANGED <<orchVars, normVars, gwVars, header, prediction>>

\* refreshWeather, the onClick of the button that isLoadingWeather disables
RefreshWeather ==
    /\ panel.mounted /\ ~panel.isLoadingWeather
    /\ panel.triggers <= MaxClicks /\ panel.requests < MaxRequests
    /\ panel' = FetchWeatherData([panel EXCEPT !.triggers = @ + 1],
                                 IF selectedLocation # NoLocation
                                 THEN selectedLocation ELSE DefaultCentre,
                                 selectedLocation # NoLocation)
    /\ UNCHANGED <<orchVars, normVars, gwVars, header, prediction>>

\* await getCurrentWeather(...) settles: setCurrentWeather and toast.success, or
\* the catch with toast.error; finally setIsLoadingWeather(false)
WeatherSettle(load, ev) ==
    /\ load \in panel.inFlight
    /\ LET thrown == FetchThrown("currentWeather", ev)
       IN  panel' =
             IF thrown = NoError
             THEN [panel EXCEPT !.currentWeather = load.target,
                                !.responseOf = load.id,
                                !.succeeded = @ \cup {load.id},
                                !.inFlight = @ \ {load},
                                !.isLoadingWeather = FALSE, !.effectDue = TRUE,
                                !.toast = IF load.manual
                                          THEN [kind |-> "success", text |-> NoError]
                                          ELSE @]
             ELSE [panel EXCEPT !.inFlight = @ \ {load},
                                !.isLoadingWeather = FALSE, !.effectDue = TRUE,
                                !.toast = [kind |-> "error", text |-> thrown]]
    /\ UNCHANGED <<orchVars, normVars, gwVars, header, prediction>>

\* the component mounts in a development build (reactStrictMode): React runs the
\* effect, its cleanup and the effect again, both runs reading the
\* currentWeather (null) and isLoadingWeather (false) of the first render
PanelMountStrict ==
    /\ ~panel.mounted
    /\ panel' = FetchWeatherData(
                    FetchWeatherData([panel EXCEPT !.mounted = TRUE, !.triggers = 1],
                                     DefaultCentre, FALSE),
                    DefaultCentre, FALSE)
    /\ UNCHANGED <<orchVars, normVars, gwVars, header, prediction>>

NextPanel ==
    \/ PanelMount
    \/ AutoLoadEffect
    \/ RefreshWeather
    \/ \E load \in panel.inFlight, ev \in ResponseEvents \cup {NetworkEvent, AbortEvent} :
          WeatherSettle(load, ev)
    \/ \E location \in Locations : HandleLocationSelect(location)

(***************************************************************************)
(* Header.handleClassifyArea, the quick classification of the header.      *)
(***************************************************************************)
HeaderStart ==
    [pc |-> "idle", isClassifying |-> FALSE, runs |-> 0, captures |-> 0,
     settled |-> 0, blob |-> 0, toast |-> NoToast]

HeaderIdle == header = HeaderStart

MaxHeaderRuns == 2
SETTLE_DELAY == 300

\* the catch and finally of handleClassifyArea
HeaderCatch(err) ==
    [header EXCEPT !.pc = "idle", !.isClassifying = FALSE, !.blob = 0,
                   !.toast = [kind |-> "error", text |-> err]]

\* handleClassifyArea is invoked (its button is disabled while isClassifying):
\* without the .leaflet-container it reports and returns; otherwise it sets the
\* busy flag and calls captureMapScreenshot at once
HandleClassifyArea ==
    /\ header.pc = "idle" /\ ~header.isClassifying
    /\ header.runs < MaxHeaderRuns
    /\ header' = IF ~mapElement
                  THEN [header EXCEPT !.runs = @ + 1,
                                      !.toast = [kind |-> "error",
                                                 text |-> Err("Map not found", 0)]]
                  ELSE [header EXCEPT !.runs = @ + 1, !.pc = "capture",
                                      !.isClassifying = TRUE,
                                      !.captures = @ + 1, !.settled = 0]
    /\ UNCHANGED <<orchVars, normVars, gwVars, panel, prediction>>

\* await captureMapScreenshot(...) settles; blobToFile; classifyWildfireArea up to
\* its fetch
HeaderCaptureDone(ok, size) ==
    /\ header.pc = "capture"
    /\ LET file == [exists |-> TRUE, type |-> "image/png", size |-> size]
           invalid == ValidateImageFile(file)
       IN  header' =
             IF ~ok
             THEN HeaderCatch(Err("Screenshot capture failed: Failed to generate screenshot blob", 0))
             ELSE IF invalid # NoError THEN HeaderCatch(invalid)
             ELSE [header EXCEPT !.pc = "classify", !.blob = size]
    /\ UNCHANGED <<orchVars, normVars, gwVars, panel, prediction>>

\* await classifyWildfireArea(...) settles: toast.success, or the catch; finally
HeaderClassifyDone(ev) ==
    /\ header.pc = "classify"
    /\ LET thrown == FetchThrown("classify", ev)
       IN  header' =
             IF thrown # NoError THEN HeaderCatch(thrown)
             ELSE [header EXCEPT !.pc = "idle", !.isClassifying = FALSE, !.blob = 0,
                                 !.toast = [kind |-> "success", text |-> NoError]]
    /\ UNCHANGED <<orchVars, normVars, gwVars, panel, prediction>>

\* the page and the header together: every path that captures the map
NextCapture ==
    \/ Next
    \/ HandleClassifyArea
    \/ \E ok \in BOOLEAN, size \in BlobSizes : HeaderCaptureDone(ok, size)
    \/ \E ev \in RunEvents : HeaderClassifyDone(ev)

(***************************************************************************)
(* MainPage.predictWeather over the page's weather-prediction state        *)
(* (weatherPrediction, weatherPredictionData) and the store's              *)
(* currentWeather and selectedLocation.                                    *)
(***************************************************************************)
MaxPredictions == 1

NoPrediction == [of |-> 0, temperature |-> Undefined]
NoLstm == [of |-> 0, success |-> FALSE, predicted_temperature |-> Undefined,
           error |-> ""]

\* timer holds the response the pending setTimeout(..., 100) will store
PredictionStart ==
    [pc |-> "idle", isPredictingWeather |-> FALSE, invocations |-> 0,
     weatherPrediction |-> NoPrediction, hasPredictionData |-> FALSE,
     timer |-> NoLstm, swal |-> NoSwal]

PredictionIdle == prediction = PredictionStart

\* the weather panel after its first load, for the default centre
PanelLoaded ==
    [PanelStart EXCEPT !.mounted = TRUE, !.currentWeather = DefaultCentre,
                       !.target = DefaultCentre, !.requests = 1, !.triggers = 1,
                       !.responseOf = 1, !.succeeded = {1}]

\* PredictCatch with the failure text fixed, whatever the body says
PredictCatchFixedText(err) ==
    [prediction EXCEPT !.pc = "idle", !.isPredictingWeather = FALSE,
                       !.swal = [title |-> "Prediction Failed",
                                 text |-> Err("Weather prediction failed.", 0)]]

\* the catch and finally of predictWeather
PredictCatch(err) ==
    [prediction EXCEPT !.pc = "idle", !.isPredictingWeather = FALSE,
                       !.swal = [title |-> "Prediction Failed", text |-> err]]

\* predictWeather is invoked (its button is disabled while isPredictingWeather
\* or without currentWeather): a guard returns, or the busy flag is set and the
\* historical weather requested
PredictWeather ==
    /\ prediction.pc = "idle" /\ ~prediction.isPredictingWeather
    /\ panel.currentWeather # "null"
    /\ prediction.invocations < MaxPredictions
    /\ prediction' =
          IF panel.currentWeather = "null"
          THEN [prediction EXCEPT
                   !.invocations = @ + 1,
                   !.swal = [title |-> "No Weather Data",
                             text |-> Err("Please wait for weather data to load first.", 0)]]
          ELSE IF selectedLocation = NoLocation
          THEN [prediction EXCEPT
                   !.invocations = @ + 1,
                   !.swal = [title |-> "No Location Selected",
                             text |-> GuardText("No Location Selected")]]
          ELSE [prediction EXCEPT !.invocations = @ + 1, !.pc = "history",
                                  !.isPredictingWeather = TRUE]
    /\ UNCHANGED <<orchVars, normVars, gwVars, panel, header>>

\* await getHistoricalWeather(...) settles; the conversion, the length check, the
\* read of currentWeather?.temperature.current, predictLSTMTemperature
PredictHistoryDone(ev, response, weather) ==
    /\ prediction.pc = "history"
    /\ LET thrown == FetchThrown("historicalWeather", ev)
           step == PredictNormalizeStep(response, weather.current)
       IN  prediction' =
             IF thrown # NoError THEN PredictCatch(thrown)
             ELSE IF ~step.request.sent THEN PredictCatch(step.thrown)
             ELSE IF ~weather.hasTemperature
             THEN PredictCatch(Err("Cannot read properties of undefined (reading 'current')", 0))
             ELSE [prediction EXCEPT !.pc = "forecast"]
    /\ UNCHANGED <<orchVars, normVars, gwVars, panel, header>>

\* await predictLSTMTemperature(...) settles: the success check, the two
\* setters called with null, the setTimeout, finally
PredictForecastDone(ev, lstmResult) ==
    /\ prediction.pc = "forecast"
    /\ LET thrown == FetchThrown("predict", ev)
       IN  prediction' =
             IF thrown # NoError THEN PredictCatch(thrown)
             ELSE IF LstmThrown(lstmResult) # NoError
             THEN PredictCatch(LstmThrown(lstmResult))
             ELSE [prediction EXCEPT !.pc = "idle", !.isPredictingWeather = FALSE,
                                     !.weatherPrediction = NoPrediction,
                                     !.hasPredictionData = FALSE,
                                     !.timer = lstmResult]
    /\ UNCHANGED <<orchVars, normVars, gwVars, panel, header>>

\* the setTimeout callback: setWeatherPrediction(lstmResult.predicted_temperature),
\* setWeatherPredictionData(detailedResponse)
PredictTimer ==
    /\ prediction.timer # NoLstm
    /\ prediction' = [prediction EXCEPT
                         !.weatherPrediction =
                             [of |-> prediction.timer.of,
                              temperature |-> prediction.timer.predicted_temperature],
                         !.hasPredictionData = TRUE,
                         !.timer = NoLstm]
    /\ UNCHANGED <<orchVars, normVars, gwVars, panel, header>>

\* the page with both of its analyses
NextPredict ==
    \/ Next
    \/ PredictWeather
    \/ \E ev \in RunEvents, response \in RunResponses, weather \in CurrentWeathers :
          PredictHistoryDone(ev, response, weather)
    \/ \E ev \in RunEvents : \E lstmResult \in LstmResults(prediction.invocations) :
          PredictForecastDone(ev, lstmResult)
    \/ PredictTimer

Init == OrchInit /\ NormIdle /\ GwIdle /\ PanelIdle /\ HeaderIdle /\ PredictionIdle
Spec == Init /\ [][Next]_vars

\* the awaits of run r settle: the zoom, the settle delay, the capture and, as
\* every remote call returns, fails or times out, each request
RunStep(r) ==
    \/ ZoomDone(r)
    \/ SettleDone(r)
    \/ \E size \in BlobSizes : CaptureResolve(r, size)
    \/ CaptureReject(r)
    \/ \E status \in {200, 500} : WeatherResolve(r, status)
    \/ WeatherReject(r)
    \/ \E parsed \in BOOLEAN, weather \in CurrentWeathers : WeatherJson(r, parsed, weather)
    \/ \E ev \in RunEvents : \E cnn \in CnnResults(r) : ClassifyDone(r, ev, cnn)
    \/ \E ev \in RunEvents, response \in RunResponses : HistoryDone(r, ev, response)
    \/ \E ev \in RunEvents : \E lstmResult \in LstmResults(r) :
          ForecastDone(r, ev, lstmResult)

SpecFair == Init /\ [][Next]_vars /\ \A r \in Runs : WF_vars(RunStep(r))

InitNorm == NormInit /\ OrchInit /\ GwIdle /\ PanelIdle /\ HeaderIdle /\ PredictionIdle
SpecNorm == InitNorm /\ [][NextNorm]_vars

InitGateway == GwInit /\ OrchInit /\ NormIdle /\ PanelIdle /\ HeaderIdle /\ PredictionIdle
SpecGateway == InitGateway /\ [][NextGateway]_vars

InitCapture == HeaderIdle /\ OrchInit /\ NormIdle /\ GwIdle /\ PanelIdle /\ PredictionIdle
SpecCapture == InitCapture /\ [][NextCapture]_vars

InitPanel == PanelIdle /\ OrchInit /\ NormIdle /\ GwIdle /\ HeaderIdle /\ PredictionIdle
SpecPanel == InitPanel /\ [][NextPanel]_vars

InitPredict ==
    /\ OrchInit /\ NormIdle /\ GwIdle /\ HeaderIdle /\ PredictionIdle
    /\ panel = PanelLoaded
SpecPredict == InitPredict /\ [][NextPredict]_vars

\* the panel in either build: mounted once, or with the effect run twice
NextOverlap == NextPanel \/ PanelMountStrict
SpecOverlap == InitPanel /\ [][NextOverlap]_vars

InitRepeat == RepeatInit /\ OrchInit /\ GwIdle /\ PanelIdle /\ HeaderIdle /\ PredictionIdle
SpecRepeat == InitRepeat /\ [][NextRepeat]_vars

(***************************************************************************)
(* Properties                                                              *)
(***************************************************************************)
Sites == {"handleClassify", "predictWeather"}
InputLen == Len(historicalData.historical_data)

\* C1: when a run started later commits while an earlier run is still in
\* flight, the earlier run's late completion never writes the store, and the
\* store never comes to hold the earlier run's result.
C1_StaleRunNeverWrites ==
    \A r \in Runs :
        run[r].overtakenBy # 0 =>
            /\ run[r].writes = 0
            /\ classificationResult.cnnOf # r

\* C2 (as claimed): every invocation of handleClassify with no selected
\* location opens the "No Location Selected" modal and returns with no request
\* issued, the busy flag not set and the stored result unchanged.
C2_NoLocationAlwaysReported ==
    [][\A r \in Runs :
          (run[r].pc = "idle" /\ run'[r].pc # "idle" /\ selectedLocation = NoLocation) =>
              /\ run'[r].pc = "returned"
              /\ swal'.title = "No Location Selected"
              /\ run'[r].calls = NoCalls
              /\ isClassifying' = isClassifying
              /\ classificationResult' = classificationResult]_vars

\* C2 (amended): every invocation of handleClassify with no selected location
\* returns with no request issued, the busy flag not set and the stored result
\* unchanged; the modal it opens is "No Location Selected" when the map is
\* ready and "Map Not Ready" when it is not.
C2_NoLocationReturnsEarly ==
    [][\A r \in Runs :
          (run[r].pc = "idle" /\ run'[r].pc # "idle" /\ selectedLocation = NoLocation) =>
              /\ run'[r].pc = "returned"
              /\ swal'.title = (IF mapElement /\ mapZoomFunction
                                THEN "No Location Selected" ELSE "Map Not Ready")
              /\ run'[r].calls = NoCalls
              /\ isClassifying' = isClassifying
              /\ classificationResult' = classificationResult]_vars

C2_Witness ==
    /\ \E r \in Runs : run[r].pc = "returned" /\ run[r].calls = NoCalls
    /\ swal.title = "No Location Selected"
    /\ selectedLocation = NoLocation

\* C3: a run whose historical-weather response is not 14 records (or carries no
\* record list) has failed and has issued no forecast request.
C3_NoForecastOnBadHistory ==
    \A r \in Runs :
        (run[r].history.received
         /\ (~run[r].history.hasData \/ run[r].history.len # DAYS)) =>
            /\ run[r].pc = "failed"
            /\ run[r].calls.forecast = 0

C3_Witness ==
    \E r \in Runs :
        /\ run[r].history.received /\ run[r].history.hasData
        /\ run[r].history.len = 9
        /\ run[r].pc = "failed"
        /\ swal.text = Err("Expected 14 days of historical data, got", 9)

\* C4: at both call sites, a response whose record count is not 14 makes the
\* step throw "Expected 14 days of historical data, got <count>"; the converted
\* list has the length of the response (neither padded nor cut) and no forecast
\* request is sent.
C4_WrongLengthRejected ==
    \A site \in Sites :
        (normOut[site].ran /\ historicalData.hasData /\ InputLen # DAYS) =>
            /\ normOut[site].out.thrown =
                  Err("Expected 14 days of historical data, got", InputLen)
            /\ Len(normOut[site].out.lstmInputData) = InputLen
            /\ ~normOut[site].out.request.sent

C4_Witness ==
    /\ historicalData.hasData /\ InputLen = DAYS + 1
    /\ \A site \in Sites : normOut[site].ran /\ ~normOut[site].out.request.sent

\* C5: at both call sites, a 14-record response yields 14 entries in the order
\* of the response, each with its 10 features a number.
C5_FourteenCompleteVectors ==
    \A site \in Sites :
        (normOut[site].ran /\ historicalData.hasData /\ InputLen = DAYS) =>
            /\ Len(normOut[site].out.lstmInputData) = DAYS
            /\ normOut[site].out.request.sent
            /\ \A i \in 1..DAYS :
                  /\ normOut[site].out.request.data[i].date
                        = historicalData.historical_data[i].date
                  /\ \A key \in FlatKeys :
                        IsNumber(normOut[site].out.request.data[i][key])

C5_Witness ==
    /\ historicalData.hasData /\ InputLen = DAYS
    /\ historicalData.historical_data[1] = [BlankEntry EXCEPT !.date = 1]
    /\ historicalData.historical_data[DAYS] = [BlankEntry EXCEPT !.date = DAYS]
    /\ \A site \in Sites : normOut[site].ran

\* the pressure-like input of a record that carries exactly one of pressure, PS
PressureInput(item) ==
    IF IsNumber(item.pressure) THEN item.pressure ELSE item.PS
HasOnePressure(item) == IsNumber(item.pressure) # IsNumber(item.PS)

\* C6: at both call sites, in every request sent, a record's pressure-like
\* input p > 0 (legacy pressure or flat PS) comes out as 10*p when p is below
\* 200 and as p otherwise.
C6_PressureNormalized ==
    \A site \in Sites :
        (normOut[site].ran /\ normOut[site].out.request.sent) =>
            \A i \in 1..Len(normOut[site].out.lstmInputData) :
                LET item == historicalData.historical_data[i]
                    p == PressureInput(item)
                IN  (HasOnePressure(item) /\ p.n > 0) =>
                        normOut[site].out.lstmInputData[i].PS =
                            (IF p.n < KPA_LIMIT THEN Num(10 * p.n) ELSE p)

C8_SingleCompleteCommit ==
    /\ \A r \in Runs :
          /\ run[r].writes <= 1
          /\ run[r].writes = 1 => (run[r].pc = "done" /\ run[r].calls.forecast = 1)
          /\ run[r].pc # "done" =>
                (classificationResult.cnnOf # r /\ classificationResult.tempOf # r)
    /\ classificationResult.present =>
          /\ IsNumber(classificationResult.predicted_temperature)
          /\ classificationResult.cnnOf \in Runs
    /\ ~classificationResult.present => classificationResult = NoResult

C8_Witness ==
    \E r \in Runs :
        /\ run[r].pc = "done" /\ run[r].writes = 1
        /\ classificationResult.present /\ classificationResult.cnnOf = r

\* C9: the stored result is empty, or its classification and its predicted
\* temperature come from the responses to one and the same run.
C9_ResultFromOneRun ==
    classificationResult.present =>
        /\ classificationResult.cnnOf = classificationResult.tempOf
        /\ classificationResult.cnnOf \in Runs

C9_Witness ==
    /\ classificationResult.present /\ classificationResult.cnnOf = 2
    /\ run[1].pc = "done" /\ run[2].pc = "done"

\* what operation op surfaces when its request ends otherwise than by its abort
NonAbortErrors(op) ==
    {Surfaced(op, ev) : ev \in ResponseEvents \cup {NetworkEvent}}
TimedOps == GatewayOps \ {"checkHealth"}

\* C10 (as claimed): for every operation, a call ended by its own abort throws
\* an error that no HTTP failure and no network failure of that operation yields.
C10_AbortDistinguishedEverywhere ==
    (gw.pc = "done" /\ gw.endedBy = "abort") =>
        /\ gw.thrown # NoError
        /\ gw.thrown \notin NonAbortErrors(gw.op)

\* C10 (amended): for every operation but checkHealth, a call ended by its own
\* abort throws that operation's "Request timeout - ..." error, which no HTTP
\* failure and no network failure of the operation yields, and does so when the
\* operation's delay (30 s for classification) has elapsed; checkHealth throws
\* "Unable to connect to the prediction service" whatever ended its attempts.
C10_AbortDistinguished ==
    /\ (gw.pc = "done" /\ gw.endedBy = "abort" /\ gw.op \in TimedOps) =>
          /\ gw.thrown = TimeoutError(gw.op)
          /\ gw.thrown \notin NonAbortErrors(gw.op)
          /\ gw.elapsed = Timeout(gw.op)
    /\ (gw.pc = "done" /\ gw.endedBy \in {"http", "network", "badjson"}
        /\ gw.op \in TimedOps) =>
          gw.thrown \notin {TimeoutError(op) : op \in TimedOps}
    /\ (gw.pc = "done" /\ gw.op = "checkHealth" /\ gw.endedBy # "ok") =>
          gw.thrown = HealthThrown

C10_Witness ==
    /\ gw.pc = "done" /\ gw.op = "classify" /\ gw.endedBy = "abort"
    /\ gw.elapsed = TIMEOUT_CLASSIFY

\* the waits that precede attempt number a (0-based) of checkHealth: 1 s + ... + a s
WaitsBefore(a) == SECOND * ((a * (a + 1)) \div 2)

C12_NoAutomaticReload ==
    panel.requests <= panel.triggers

\* C13: a change of the selected location while a run is in flight cancels the
\* run (it is no longer in flight after the change), and a run commits only a
\* result computed for the location that is selected when it commits.
C13_LocationChangeCancels ==
    [][/\ selectedLocation' # selectedLocation =>
             \A r \in Runs : InFlight(r) => run'[r].pc \notin Active
       /\ \A r \in Runs :
             (run[r].pc = "forecast" /\ run'[r].pc = "done") =>
                 run[r].location = selectedLocation]_vars

\* the inputs of the end-to-end scenario for run r
ScenarioCnn(r) == [of |-> r, is_wildfire |-> TRUE, confidence |-> 82]
ScenarioWeather == [hasTemperature |-> TRUE, current |-> Num(Tenths(31, 0))]
ScenarioLstm(r) ==
    [of |-> r, success |-> TRUE, predicted_temperature |-> Num(Tenths(33, 4)),
     error |-> ""]
ScenarioResult(r) ==
    [present |-> TRUE, is_wildfire |-> TRUE, confidence |-> 82,
     predicted_temperature |-> Num(Tenths(33, 4)), cnnOf |-> r, tempOf |-> r]

\* what run r has received so far is what the scenario supplies
ScenarioSoFar(r) ==
    /\ run[r].blob \in {0, 2 * MIN_SIZE}
    /\ run[r].status \in {0, 200}
    /\ run[r].pc \in {"classify", "history", "forecast"} =>
          run[r].currentWeather = ScenarioWeather
    /\ run[r].pc \in {"history", "forecast"} => run[r].cnnResult = ScenarioCnn(r)

\* a step in which run r receives the next input of the scenario
ScenarioStep(r) ==
    \/ CaptureResolve(r, 2 * MIN_SIZE)
    \/ WeatherResolve(r, 200)
    \/ WeatherJson(r, TRUE, ScenarioWeather)
    \/ ClassifyDone(r, OkEvent, ScenarioCnn(r))
    \/ \E response \in RunResponses :
          /\ response.hasData /\ Len(response.historical_data) = DAYS
          /\ HistoryDone(r, OkEvent, response)
    \/ ForecastDone(r, OkEvent, ScenarioLstm(r))

C15_ClaimedPhaseOrder ==
    \A r \in Runs :
        /\ (run[r].pc \in Active /\ run[r].calls.weather = 1) => run[r].capture = "ok"
        /\ (run[r].pc \in Active /\ run[r].calls.classify = 1) => run[r].capture = "ok"
        /\ run[r].calls.history <= run[r].calls.classify
        /\ run[r].calls.forecast <= run[r].calls.history
        /\ run[r].writes <= run[r].calls.forecast

\* the moves of a run from one await to the next
PhaseMoves ==
    {<<"idle", "returned">>, <<"idle", "zoom">>, <<"zoom", "settle">>,
     <<"settle", "parallel">>, <<"parallel", "json">>, <<"json", "classify">>,
     <<"classify", "history">>, <<"history", "forecast">>, <<"forecast", "done">>}
    \cup {<<pc, "failed">> : pc \in {"parallel", "json", "classify", "history", "forecast"}}

\* C15 (amended): every run moves only in the order zoom, settle, capture
\* together with the current-weather fetch, classification, historical-weather
\* fetch with normalization, forecast, commit; each request is issued exactly
\* in the move that follows the success of the phase before it; a failure
\* moves the run to failed from where it is; and a run that is done or failed
\* changes no more, issues no request and writes the store no more (the store
\* changes only in the commit move of a run or by the Clear Result button).
C15_PhaseOrder ==
    [][/\ \A r \in Runs :
            /\ run'[r].pc # run[r].pc => <<run[r].pc, run'[r].pc>> \in PhaseMoves
            /\ run[r].pc \in Ended \cup {"returned"} => run'[r] = run[r]
            /\ run'[r].calls.capture # run[r].calls.capture =>
                  (run[r].pc = "settle" /\ run'[r].pc = "parallel")
            /\ run'[r].calls.weather # run[r].calls.weather =>
                  (run[r].pc = "settle" /\ run'[r].pc = "parallel")
            /\ (run[r].pc = "parallel" /\ run'[r].pc = "json") =>
                  (run'[r].capture = "ok" /\ run'[r].status = 200)
            /\ run'[r].calls.classify # run[r].calls.classify =>
                  /\ run[r].pc = "json" /\ run'[r].pc = "classify"
                  /\ run[r].blob >= MIN_SIZE
            /\ run'[r].calls.history # run[r].calls.history =>
                  /\ run[r].pc = "classify" /\ run'[r].pc = "history"
                  /\ run'[r].cnnResult \in CnnResults(r)
            /\ run'[r].calls.forecast # run[r].calls.forecast =>
                  /\ run[r].pc = "history" /\ run'[r].pc = "forecast"
                  /\ run'[r].history.hasData /\ run'[r].history.len = DAYS
            /\ run'[r].writes # run[r].writes =>
                  /\ run[r].pc = "forecast" /\ run'[r].pc = "done"
                  /\ IsNumber(classificationResult'.predicted_temperature)
       /\ classificationResult' # classificationResult =>
            \/ \E r \in Runs : run[r].pc = "forecast" /\ run'[r].pc = "done"
            \/ classificationResult' = NoResult]_vars

C15_Witness ==
    \E r, q \in Runs :
        /\ run[r].pc = "done" /\ run[r].writes = 1
        /\ run[q].pc = "failed" /\ run[q].calls.history = 1
        /\ run[q].calls.forecast = 0 /\ run[q].writes = 0

\* C16 (as claimed): the classification request and the current-weather
\* request of a run are issued together, neither waiting for the other to
\* finish: a run has issued the one exactly when it has issued the other.
C16_ClassifyWithWeather ==
    \A r \in Runs : run[r].calls.classify = run[r].calls.weather

\* C16 (amended): within one run it is the screenshot capture and the
\* current-weather fetch that are issued together and in flight at the same
\* time, so that they may complete in either order; the classification request
\* is issued only after both have completed successfully, and so is never in
\* flight together with the current-weather fetch.
C16_CaptureWithWeather ==
    \A r \in Runs :
        /\ run[r].calls.capture = run[r].calls.weather
        /\ run[r].pc = "parallel" =>
              /\ run[r].calls.capture = 1 /\ run[r].calls.classify = 0
              /\ "pending" \in {run[r].capture, run[r].weather}
        /\ (run[r].pc \in Active /\ run[r].calls.classify = 1) =>
              /\ run[r].capture = "ok"
              /\ run[r].weather = "resolved" /\ run[r].status = 200

C16_Witness ==
    \E r, q \in Runs :
        /\ run[r].pc = "parallel" /\ run[q].pc = "parallel"
        /\ run[r].capture = "ok" /\ run[r].weather = "pending"
        /\ run[q].capture = "pending" /\ run[q].weather = "resolved"

\* C17: a run issues its historical-weather request only in the step in which
\* its classification succeeds, its current-weather fetch having succeeded
\* before (status 200, body parsed and read); a run that fails in the capture
\* and weather phase or in the classification has issued no historical-weather
\* request, and issues none afterwards.
C17_HistoryAfterBoth ==
    [][\A r \in Runs :
          /\ run'[r].calls.history # run[r].calls.history =>
                /\ run[r].pc = "classify" /\ run[r].calls.history = 0
                /\ run'[r].cnnResult \in CnnResults(r)
                /\ run[r].weather = "resolved" /\ run[r].status = 200
                /\ run[r].currentWeather.hasTemperature
          /\ (run[r].pc \in {"parallel", "json", "classify"} /\ run'[r].pc = "failed") =>
                run'[r].calls.history = 0
          /\ run[r].pc = "failed" => run'[r].calls.history = run[r].calls.history]_vars

C17_Witness ==
    \E r, q \in Runs :
        /\ run[r].pc = "failed" /\ run[r].calls.classify = 1 /\ run[r].calls.history = 0
        /\ run[q].pc = "history" /\ run[q].calls.history = 1

\* C18: every capture of the map that is submitted for classification comes
\* after the zoom has completed and the settle delay has elapsed: a run of the
\* page has captured only when past its zoom and settle steps, and the header's
\* quick classification has captured only after waiting the settle delay.
C18_CaptureAfterSettle ==
    /\ \A r \in Runs :
          run[r].calls.capture = 1 => run[r].pc \notin {"idle", "returned", "zoom", "settle"}
    /\ header.captures > 0 => header.settled >= SETTLE_DELAY

\* the features a record may carry in both shapes: flat key and legacy field
FlatOf(item) ==
    [T2M |-> item.T2M, RH2M |-> item.RH2M, WS10M |-> item.WS10M, WD10M |-> item.WD10M]

\* C19: at both call sites, for every record and every feature with a flat key
\* and a legacy field, a flat value that is present (a number other than 0) is
\* the output, whatever the legacy field holds.
C19_FlatKeyFirst ==
    \A site \in Sites :
        normOut[site].ran =>
            \A i \in 1..Len(normOut[site].out.lstmInputData) :
                \A key \in DOMAIN FlatOf(historicalData.historical_data[i]) :
                    Truthy(FlatOf(historicalData.historical_data[i])[key]) =>
                        normOut[site].out.lstmInputData[i][key]
                            = FlatOf(historicalData.historical_data[i])[key]

\* the temperature of a record: its flat T2M if present, else its legacy temp
RecordTemp(item) == Or(item.T2M, OptTemp(item))

\* C20: at both call sites, a T2M_MIN (T2M_MAX) present in the record is the
\* output unchanged; when it is absent and the record has a temperature, the
\* output is that temperature minus 3 (plus 3).
C20_MinMaxPassedOrDerived ==
    \A site \in Sites :
        normOut[site].ran =>
            \A i \in 1..Len(normOut[site].out.lstmInputData) :
                LET item == historicalData.historical_data[i]
                    out == normOut[site].out.lstmInputData[i]
                IN  /\ Truthy(item.T2M_MIN) => out.T2M_MIN = item.T2M_MIN
                    /\ Truthy(item.T2M_MAX) => out.T2M_MAX = item.T2M_MAX
                    /\ (~IsNumber(item.T2M_MIN) /\ Truthy(RecordTemp(item))) =>
                          out.T2M_MIN = Minus(RecordTemp(item), TEMP_SPREAD)
                    /\ (~IsNumber(item.T2M_MAX) /\ Truthy(RecordTemp(item))) =>
                          out.T2M_MAX = Plus(RecordTemp(item), TEMP_SPREAD)

\* whether each defaulted feature of a record is absent from both shapes
AbsentFrom(item) ==
    [RH2M  |-> ~IsNumber(OptHumidity(item)) /\ ~IsNumber(item.RH2M),
     WS10M |-> ~IsNumber(OptSpeed(item)) /\ ~IsNumber(item.WS10M),
     WD10M |-> ~IsNumber(OptDirection(item)) /\ ~IsNumber(item.WD10M),
     PS    |-> ~IsNumber(item.pressure) /\ ~IsNumber(item.PS),
     PRECTOTCORR |-> ~IsNumber(item.PRECTOTCORR),
     ALLSKY_SFC_SW_DWN |-> ~IsNumber(item.ALLSKY_SFC_SW_DWN),
     ALLSKY_SFC_UVA |-> ~IsNumber(item.ALLSKY_SFC_UVA)]

\* humidity 75, wind speed 2.0, wind direction 180, pressure 1013,
\* precipitation 0, solar 200, UV 30
FixedDefaults ==
    [RH2M  |-> Num(Tenths(75, 0)), WS10M |-> Num(Tenths(2, 0)),
     WD10M |-> Num(Tenths(180, 0)), PS |-> Num(Tenths(1013, 0)),
     PRECTOTCORR |-> Num(0), ALLSKY_SFC_SW_DWN |-> Num(Tenths(200, 0)),
     ALLSKY_SFC_UVA |-> Num(Tenths(30, 0))]

\* C21: at both call sites, for every record, a feature that is absent from
\* both shapes of the record is output as its fixed default: humidity 75, wind
\* speed 2.0, wind direction 180, pressure 1013, precipitation 0, solar 200,
\* UV 30.
C21_AbsentGetsDefault ==
    \A site \in Sites :
        normOut[site].ran =>
            \A i \in 1..Len(normOut[site].out.lstmInputData) :
                \A key \in DOMAIN FixedDefaults :
                    AbsentFrom(historicalData.historical_data[i])[key] =>
                        normOut[site].out.lstmInputData[i][key] = FixedDefaults[key]

\* both sites have converted, and sent, a 14-record response whose first record
\* has a temperature and lacks all seven features
C21_Witness ==
    /\ \A site \in Sites : normOut[site].ran /\ normOut[site].out.request.sent
    /\ Truthy(historicalData.historical_data[1].T2M)
    /\ \A key \in DOMAIN FixedDefaults :
          /\ AbsentFrom(historicalData.historical_data[1])[key]
          /\ normOut.handleClassify.out.lstmInputData[1][key] = FixedDefaults[key]
          /\ normOut.predictWeather.out.lstmInputData[1][key] = FixedDefaults[key]

HttpEvents == {HttpEvent(status, body) : status \in HttpStatuses, body \in ErrorBodies}

\* the generic message naming the HTTP status
GenericStatusText(status) == Err("HTTP error! status:", status)

\* C23 as stated: whatever the operation, a non-success response with status N
\* surfaces the body's message when the body parses and has one, else the body's
\* error field when it has one, and the generic message naming N when the body
\* is absent or is not valid JSON.
C23_StatusNamedWithoutBody ==
    [][\A ev \in HttpEvents :
          (GwRespond(ev) /\ gw'.pc = "done") =>
              /\ (ev.body.parsable /\ ev.body.message # "") =>
                    gw'.thrown = Err(ev.body.message, 0)
              /\ (ev.body.parsable /\ ev.body.message = "" /\ ev.body.error # "") =>
                    gw'.thrown = Err(ev.body.error, 0)
              /\ ~ev.body.parsable => gw'.thrown = GenericStatusText(ev.status)]_vars

\* C23: every operation other than checkHealth, on a non-success response with
\* status N, surfaces the body's message when the body parses and has one, else
\* the body's error field when it has one, else the generic message naming N;
\* when the body is absent or is not valid JSON the fetch-based operations
\* surface "An unexpected error occurred" and the progress-tracking upload
\* surfaces the generic message naming N.  checkHealth surfaces "Unable to
\* connect to the prediction service" whatever the response.
C23_HttpErrorText ==
    [][\A ev \in HttpEvents :
          (GwRespond(ev) /\ gw'.pc = "done") =>
              IF gw.op = "checkHealth"
              THEN gw'.thrown = Err("Unable to connect to the prediction service", 0)
              ELSE /\ (ev.body.parsable /\ ev.body.message # "") =>
                        gw'.thrown = Err(ev.body.message, 0)
                   /\ (ev.body.parsable /\ ev.body.message = "" /\ ev.body.error # "") =>
                        gw'.thrown = Err(ev.body.error, 0)
                   /\ (ev.body.parsable /\ ev.body.message = "" /\ ev.body.error = "") =>
                        gw'.thrown = GenericStatusText(ev.status)
                   /\ (~ev.body.parsable /\ gw.op \in FetchOps) =>
                        gw'.thrown = Err("An unexpected error occurred", 0)
                   /\ (~ev.body.parsable /\ gw.op = "classifyXhr") =>
                        gw'.thrown = GenericStatusText(ev.status)]_vars

\* a fetch-based operation has ended on a non-success response whose body did
\* not parse
C23_Witness ==
    /\ gw.op = "currentWeather" /\ gw.pc = "done" /\ gw.endedBy = "http"
    /\ gw.thrown = Err("An unexpected error occurred", 0)

\* C24: while a gateway call has a request in flight and its own timer has not
\* fired, the caller can abort it: a step that ends the request by abort is
\* possible.
C24_CallerCanAbort ==
    (gw.pc = "pending" /\ gw.elapsed < Timeout(gw.op)) =>
        ENABLED (NextGateway /\ gw'.pc # "pending" /\ gw'.endedBy = "abort")

\* run r ends in failure in this step
FailsIn(r) == run[r].pc \in Active /\ run'[r].pc = "failed"

\* C25: as long as every await of a run settles, a run that has set the busy
\* flag ends, completed or failed, with the busy flag false; the step in which
\* a run fails opens the "Analysis Failed" modal with a non-empty message, and
\* no other step of a started run opens a modal.
C25_RunTornDown ==
    /\ \A r \in Runs :
          (run[r].pc \in Active) ~> (run[r].pc \in Ended /\ ~isClassifying)
    /\ [][/\ \A r \in Runs :
               FailsIn(r) => /\ swal'.title = "Analysis Failed"
                             /\ swal'.text.text # ""
                             /\ ~isClassifying'
          /\ (\A r \in Runs : ~FailsIn(r) /\ run'[r].pc # "returned") =>
                swal' = swal]_vars

\* one run has failed and reported, another has completed, and no run is busy
C25_Witness ==
    /\ \E r, q \in Runs :
          /\ run[r].pc = "failed" /\ run[r].calls.forecast = 1
          /\ run[q].pc = "done"
    /\ swal.title = "Analysis Failed" /\ swal.text = Err("LSTM prediction failed", 0)
    /\ ~isClassifying

\* C26: once both call sites have converted the same response, they have
\* produced the same sequence of vectors, record by record and feature by
\* feature, the pressure included.
C26_SitesEquivalent ==
    (normOut.handleClassify.ran /\ normOut.predictWeather.ran) =>
        normOut.handleClassify.out.lstmInputData
            = normOut.predictWeather.out.lstmInputData

\* the same features as the legacy shape carries them
LegacyOf(item) ==
    [T2M |-> OptTemp(item), RH2M |-> OptHumidity(item),
     WS10M |-> OptSpeed(item), WD10M |-> OptDirection(item)]

\* C27: at both call sites, a temperature, humidity, wind speed or wind
\* direction that a record reports as 0 (in one shape, the other shape not
\* carrying the feature) is 0 in the output.
C27_ZeroPreserved ==
    \A site \in Sites :
        normOut[site].ran =>
            \A i \in 1..Len(normOut[site].out.lstmInputData) :
                \A key \in DOMAIN FlatOf(historicalData.historical_data[i]) :
                    LET flat == FlatOf(historicalData.historical_data[i])[key]
                        legacy == LegacyOf(historicalData.historical_data[i])[key]
                    IN  (\/ flat = Num(0) /\ ~IsNumber(legacy)
                         \/ legacy = Num(0) /\ ~IsNumber(flat)) =>
                            normOut[site].out.lstmInputData[i][key] = Num(0)

\* the text a forecast body with success false makes the handler report
UnsuccessfulText(lstmResult) ==
    IF lstmResult.error # "" THEN Err(lstmResult.error, 0)
    ELSE Err("LSTM prediction failed", 0)

\* C28: when the forecast request ends well and its body says success false,
\* handleClassify fails the run and reports the body's error text (or "LSTM
\* prediction failed") leaving the stored classification result as it was, and
\* predictWeather reports the same text leaving weatherPrediction and
\* weatherPredictionData as they were, with no write pending; neither writes
\* the other's state.
C28_UnsuccessfulForecastFails ==
    [][/\ \A r \in Runs : \A lstmResult \in LstmResults(r) :
             (~lstmResult.success /\ ForecastDone(r, OkEvent, lstmResult)) =>
                 /\ run'[r].pc = "failed"
                 /\ swal' = [title |-> "Analysis Failed",
                             text |-> UnsuccessfulText(lstmResult)]
                 /\ classificationResult' = classificationResult
                 /\ prediction' = prediction
       /\ \A lstmResult \in LstmResults(prediction.invocations) :
             (~lstmResult.success /\ PredictForecastDone(OkEvent, lstmResult)) =>
                 /\ prediction'.pc = "idle" /\ ~prediction'.isPredictingWeather
                 /\ prediction'.swal = [title |-> "Prediction Failed",
                                        text |-> UnsuccessfulText(lstmResult)]
                 /\ prediction'.weatherPrediction = prediction.weatherPrediction
                 /\ prediction'.hasPredictionData = prediction.hasPredictionData
                 /\ prediction'.timer = prediction.timer
                 /\ classificationResult' = classificationResult]_vars

\* both handlers have failed on a forecast body with success false: the result
\* an earlier run committed is still stored, and nothing is in the prediction state
C28_Witness ==
    /\ \E r \in Runs : run[r].pc = "failed" /\ run[r].calls.forecast = 1
    /\ swal = [title |-> "Analysis Failed", text |-> Err("Model is not loaded", 0)]
    /\ classificationResult.present
    /\ prediction.invocations > 0 /\ prediction.pc = "idle"
    /\ prediction.swal = [title |-> "Prediction Failed",
                          text |-> Err("LSTM prediction failed", 0)]
    /\ prediction.weatherPrediction = NoPrediction /\ prediction.timer = NoLstm

\* the files the claim has rejected, and the messages of the validation
Rejected(file) ==
    \/ ~file.exists
    \/ file.type \notin {"image/jpeg", "image/jpg", "image/png"}
    \/ file.size > 16 * 1024 * 1024
    \/ file.size < 1024

ValidationMessages ==
    {Err("No file selected", 0),
     Err("Please select a valid image file (PNG, JPG, or JPEG)", 0),
     Err("File size must be less than 16MB", 0),
     Err("File is too small or corrupted", 0)}

\* C29: on both upload paths, a call of classifyWildfireArea with a missing
\* file, a type other than image/jpeg, image/jpg or image/png, a size above
\* 16 MiB or a size below 1024 bytes ends at once with a validation message and
\* no request issued; with any other file, sizes of exactly 1024 bytes and
\* 16 MiB included, the request is issued.  A call the validation ended never
\* has a request.
C29_ValidatedBeforeRequest ==
    /\ [][\A op \in {"classify", "classifyXhr"}, file \in Files :
             GwCall(op, file) =>
                 IF Rejected(file)
                 THEN /\ gw'.pc = "done" /\ gw'.requests = 0
                      /\ gw'.thrown \in ValidationMessages
                 ELSE gw'.pc = "pending" /\ gw'.requests = 1]_vars
    /\ [](gw.endedBy = "validation" =>
             gw.requests = 0 /\ gw.pc = "done" /\ gw.thrown \in ValidationMessages)

\* the progress-tracking upload was called with a file one byte short of the
\* minimum and ended without a request
C29_Witness ==
    /\ gw.op = "classifyXhr" /\ gw.endedBy = "validation" /\ gw.requests = 0
    /\ gw.thrown = Err("File is too small or corrupted", 0)

\* C30: in the weather panel, isLoadingWeather is true while any load is in
\* flight, and once no load is in flight isLoadingWeather is false and, if the
\* most recently started load has stored its response, currentWeather is that
\* response.
C30_LatestLoadWins ==
    /\ panel.inFlight # {} => panel.isLoadingWeather
    /\ panel.inFlight = {} =>
          /\ ~panel.isLoadingWeather
          /\ panel.requests \in panel.succeeded => panel.responseOf = panel.requests

=============================================================================
